---- MODULE Spec2Model ----
(***************************************************************************)
(* Deployment description of the wasedatime backend: the Lambda function   *)
(* constructs of lib/constructs/common/lambda-functions.ts (access roles,  *)
(* function descriptors, environment wiring) and the Amplify build         *)
(* specifications (micro-apps, main web app, OpenAPI site).                *)
(*                                                                         *)
(* A state is the description assembled so far; one action per construct   *)
(* constructor and per build-specification builder.                        *)
(***************************************************************************)
EXTENDS Naturals, Sequences, FiniteSets

VARIABLES env, envVarsOf, children, roles, functions, buildSpecs

vars == <<env, envVarsOf, children, roles, functions, buildSpecs>>

----------------------------------------------------------------------------
(* Values *)

\* The number of construct ids available in the one scope (the app).
MaxIds == 2

\* The ids the callers give the constructs they instantiate.
Ids == 1 .. MaxIds

\* The value of process.env.X when X is not set.
Undefined == "undefined"

\* AwsServicePrincipal.LAMBDA
LambdaPrincipal == "lambda.amazonaws.com"

BasicExecArn == "arn:aws:iam::aws:policy/service-role/AWSLambdaBasicExecutionRole"
DynamoReadOnlyArn == "arn:aws:iam::aws:policy/AmazonDynamoDBReadOnlyAccess"
DynamoFullAccessArn == "arn:aws:iam::aws:policy/AmazonDynamoDBFullAccess"
S3FullAccessArn == "arn:aws:iam::aws:policy/AmazonS3FullAccess"

\* The role field of a function constructed without a `role` property.
NoRole == [scope |-> << >>, id |-> ""]

\* The props.envVars objects of the callers, and the mapping each was
\* written with, as a set of <<name, value>>.
EnvVarsObjects == {"p1", "p2", "p3"}

\* Two callers write the same mapping; the third already supplies the
\* credential name.
InitialEnvVars(obj) ==
    IF obj \in {"p1", "p2"}
    THEN {<<"TABLE_NAME", "t">>}
    ELSE {<<"TABLE_NAME", "t">>, <<"GOOGLE_API_SERVICE_ACCOUNT_INFO", "caller">>}

\* Stands for the props of a construct made without props.envVars.
NoProps == "none"

\* The environment of a function constructed without an `environment` property.
NoEnvironment == {}

\* Values the process environment can hold for one name.
SecretChoices == {Undefined, "secret"}

----------------------------------------------------------------------------
(* Configuration constants imported from configs/lambda/environment: the   *)
(* value of the process environment at load time, undefined when unset.    *)

GOOGLE_API_SERVICE_ACCOUNT_INFO == env.GOOGLE_API_SERVICE_ACCOUNT_INFO

SLACK_WEBHOOK_URL == env.SLACK_WEBHOOK_URL

----------------------------------------------------------------------------
(* Library constructors, as used by the constructs *)

\* The construct object `this` of a constructor: its class and the id the
\* caller gave it.
This(class, id) == <<class, id>>

ClassOf(this) == this[1]

\* new LazyRole(scope, id, {assumedBy, description, path, roleName, managedPolicies})
LazyRole(scope, id, description, roleName, managedPolicies) ==
    [ scope           |-> scope,
      id              |-> id,
      description     |-> description,
      roleName        |-> roleName,
      managedPolicies |-> managedPolicies,
      assumedBy       |-> LambdaPrincipal,
      path            |-> "/service-role/lambda.amazonaws.com/" ]

\* A reference to a role object, as held in a function's `role` property.
RoleRef(r) == [scope |-> r.scope, id |-> r.id]

\* The mapping with `key` set to `value`.
WithEntry(mapping, key, value) ==
    {kv \in mapping : kv[1] # key} \cup {<<key, value>>}

\* Function.addEnvironment(key, value): sets environment[key] = value in
\* the environment of the function and returns the function.
addEnvironment(f, key, value) ==
    [f EXCEPT !.environment = WithEntry(@, key, value)]

\* new Function(scope, id, {code: Code.fromAsset(path), handler, ...}).
\* The function takes the entries of the `environment` property into a
\* mapping of its own ({...props.environment} in the aws-cdk releases that
\* ship @aws-cdk/aws-lambda-python, imported at line 6): the descriptor is
\* captured when it is built and shares no state with the props object.
Function(scope, id, asset, description, functionName, logRetention, memorySize, role, runtime, timeout, environment) ==
    [ scope        |-> scope,
      id           |-> id,
      description  |-> description,
      environment  |-> environment,
      functionName |-> functionName,
      logRetention |-> logRetention,
      memorySize   |-> memorySize,
      role         |-> role,
      runtime      |-> runtime,
      timeout      |-> timeout,
      kind         |-> "Function",
      code         |-> asset ]

\* new PythonFunction(scope, id, {entry, ...}): a Function built from the
\* entry directory, with the same handling of `environment`.
PythonFunction(scope, id, entry, description, functionName, logRetention, memorySize, role, runtime, timeout, environment) ==
    [ scope        |-> scope,
      id           |-> id,
      description  |-> description,
      environment  |-> environment,
      functionName |-> functionName,
      logRetention |-> logRetention,
      memorySize   |-> memorySize,
      role         |-> role,
      runtime      |-> runtime,
      timeout      |-> timeout,
      kind         |-> "PythonFunction",
      code         |-> entry ]

----------------------------------------------------------------------------
(* CourseReviewsFunctions *)

CourseReviewsReadRole(this) ==
    LazyRole(this, "dynamo-read-role",
             "Allow lambda function to perform crud operation on dynamodb",
             "dynamodb-lambda-read",
             <<BasicExecArn, DynamoReadOnlyArn>>)

CourseReviewsPutRole(this) ==
    LazyRole(this, "dynamo-put-role",
             "Allow lambda function to perform crud operation on dynamodb",
             "dynamodb-lambda-write",
             <<BasicExecArn, DynamoFullAccessArn>>)

\* Variant: the get function bound to the write role.
CourseReviewsGetFunction_PutRole(this, envVars) ==
    Function(this, "get-reviews", "src/lambda/get-reviews",
             "Get course reviews from the database.", "get-course-reviews",
             "ONE_MONTH", 128, RoleRef(CourseReviewsPutRole(this)), "PYTHON_3_8", 3,
             envVars)

CourseReviewsGetFunction(this, envVars) ==
    Function(this, "get-reviews", "src/lambda/get-reviews",
             "Get course reviews from the database.", "get-course-reviews",
             "ONE_MONTH", 128, RoleRef(CourseReviewsReadRole(this)), "PYTHON_3_8", 3,
             envVars)

CourseReviewsPostFunction(this, envVars) ==
    addEnvironment(
        PythonFunction(this, "post-review",
             "src/lambda/post-review",
             "Save course reviews into the database.", "post-course-review",
             "ONE_MONTH", 128, RoleRef(CourseReviewsPutRole(this)), "PYTHON_3_8", 5,
             envVars),
        "GOOGLE_API_SERVICE_ACCOUNT_INFO", GOOGLE_API_SERVICE_ACCOUNT_INFO)

CourseReviewsPatchFunction(this, envVars) ==
    addEnvironment(
        PythonFunction(this, "patch-review",
             "src/lambda/patch-review",
             "Update course reviews in the database.", "patch-course-review",
             "ONE_MONTH", 128, RoleRef(CourseReviewsPutRole(this)), "PYTHON_3_8", 5,
             envVars),
        "GOOGLE_API_SERVICE_ACCOUNT_INFO", GOOGLE_API_SERVICE_ACCOUNT_INFO)

\* Variant: the credential also added to the delete function.
CourseReviewsDeleteFunction_WithCredential(this, envVars) ==
    addEnvironment(
        PythonFunction(this, "delete-review",
             "src/lambda/delete-review",
             "Delete course reviews in the database.", "delete-course-review",
             "ONE_MONTH", 128, RoleRef(CourseReviewsPutRole(this)), "PYTHON_3_8", 3,
             envVars),
        "GOOGLE_API_SERVICE_ACCOUNT_INFO", GOOGLE_API_SERVICE_ACCOUNT_INFO)

CourseReviewsDeleteFunction(this, envVars) ==
    PythonFunction(this, "delete-review",
             "src/lambda/delete-review",
             "Delete course reviews in the database.", "delete-course-review",
             "ONE_MONTH", 128, RoleRef(CourseReviewsPutRole(this)), "PYTHON_3_8", 3,
             envVars)

CourseReviewsFunctionSet(this, envVars) ==
    { CourseReviewsGetFunction(this, envVars),
      CourseReviewsPostFunction(this, envVars),
      CourseReviewsPatchFunction(this, envVars),
      CourseReviewsDeleteFunction(this, envVars) }

----------------------------------------------------------------------------
(* SyllabusScraper *)

ScraperS3AccessRole(this) ==
    LazyRole(this, "s3-access-role",
             "Allow lambda function to access s3 buckets",
             "s3-lambda-full-access",
             <<BasicExecArn, S3FullAccessArn>>)

ScraperBaseFunction(this, envVars) ==
    PythonFunction(this, "base-function",
             "src/lambda/syllabus-scraper",
             "Base function for scraping syllabus data from Waseda University.",
             "syllabus-scraper",
             "SIX_MONTHS", 4096, RoleRef(ScraperS3AccessRole(this)), "PYTHON_3_8", 210,
             envVars)

----------------------------------------------------------------------------
(* AmplifyStatusPublisher, ScraperStatusPublisher, PreSignupWasedaMailValidator *)

AmplifyStatusBaseFunction(this) ==
    addEnvironment(
        Function(this, "base-function",
             "src/lambda/amplify-status-publisher",
             "Forwards Amplify build status message from SNS to Slack Webhook.",
             "amplify-status-publisher",
             "SIX_MONTHS", 128, NoRole, "NODEJS_12_X", 3, NoEnvironment),
        "SLACK_WEBHOOK_URL", SLACK_WEBHOOK_URL)

\* Variant: the function name and code location copied from the Amplify
\* status publisher.
ScraperStatusBaseFunction_Copied(this) ==
    addEnvironment(
        Function(this, "base-function",
             "src/lambda/amplify-status-publisher",
             "Forwards scraper execution status message from SNS to Slack Webhook.",
             "amplify-status-publisher",
             "SIX_MONTHS", 128, NoRole, "NODEJS_12_X", 3, NoEnvironment),
        "SLACK_WEBHOOK_URL", SLACK_WEBHOOK_URL)

ScraperStatusBaseFunction(this) ==
    addEnvironment(
        Function(this, "base-function",
             "src/lambda/sfn-status-publisher",
             "Forwards scraper execution status message from SNS to Slack Webhook.",
             "scraper-status-publisher",
             "SIX_MONTHS", 128, NoRole, "NODEJS_12_X", 3, NoEnvironment),
        "SLACK_WEBHOOK_URL", SLACK_WEBHOOK_URL)

PreSignupBaseFunction(this) ==
    Function(this, "base-function",
             "src/lambda/signup-validator",
             "Validates if the user is signing up using WasedaMail",
             "wasedamail-signup-validator",
             "SIX_MONTHS", 128, NoRole, "PYTHON_3_8", 3, NoEnvironment)

----------------------------------------------------------------------------
(* TimetableFunctions *)

TimetableReadRole(this) ==
    LazyRole(this, "dynamo-read-role",
             "Allow lambda function to perform crud operation on dynamodb",
             "dynamodb-lambda-read-timetable",
             <<BasicExecArn, DynamoReadOnlyArn>>)

\* Variant: the write role without the basic execution policy.
TimetablePutRole_NoBasicExec(this) ==
    LazyRole(this, "dynamo-put-role",
             "Allow lambda function to perform crud operation on dynamodb",
             "dynamodb-lambda-write-timetable",
             <<DynamoFullAccessArn>>)

TimetablePutRole(this) ==
    LazyRole(this, "dynamo-put-role",
             "Allow lambda function to perform crud operation on dynamodb",
             "dynamodb-lambda-write-timetable",
             <<BasicExecArn, DynamoFullAccessArn>>)

TimetableGetFunction(this, envVars) ==
    Function(this, "get-timetable", "src/lambda/get-timetable",
             "Get timetable from the database.", "get-timetable",
             "ONE_MONTH", 128, RoleRef(TimetableReadRole(this)), "PYTHON_3_8", 3,
             envVars)

TimetablePostFunction(this, envVars) ==
    PythonFunction(this, "post-timetable",
             "src/lambda/post-timetable",
             "Save timetable into the database.", "post-timetable",
             "ONE_MONTH", 128, RoleRef(TimetablePutRole(this)), "PYTHON_3_8", 3,
             envVars)

TimetablePatchFunction(this, envVars) ==
    PythonFunction(this, "patch-timetable",
             "src/lambda/patch-timetable",
             "Update timetable in the database.", "patch-timetable",
             "ONE_MONTH", 128, RoleRef(TimetablePutRole(this)), "PYTHON_3_8", 3,
             envVars)

TimetableImportFunction(this) ==
    PythonFunction(this, "import-timetable",
             "src/lambda/import-timetable",
             "Import timetable from pdf.", "import-timetable",
             "ONE_MONTH", 256, NoRole, "PYTHON_3_8", 5, NoEnvironment)

TimetableExportFunction(this) ==
    PythonFunction(this, "export-timetable",
             "src/lambda/export-timetable",
             "Export timetable as image.", "export-timetable",
             "ONE_MONTH", 512, NoRole, "PYTHON_3_8", 5, NoEnvironment)

\* The functions the TimetableFunctions constructor assigns.  The class
\* declares deleteFunction, and the constructor never assigns it.
TimetableFunctionSet(this, envVars) ==
    { TimetableGetFunction(this, envVars), TimetablePostFunction(this, envVars),
      TimetablePatchFunction(this, envVars),
      TimetableImportFunction(this), TimetableExportFunction(this) }

----------------------------------------------------------------------------
(* SyllabusFunctions *)

\* Variant: the role name copied from the course-reviews read role.
SyllabusReadRole_CopiedName(this) ==
    LazyRole(this, "dynamo-read-role",
             "Allow lambda function to perform crud operation on dynamodb",
             "dynamodb-lambda-read",
             <<BasicExecArn, DynamoReadOnlyArn>>)

SyllabusReadRole(this) ==
    LazyRole(this, "dynamo-read-role",
             "Allow lambda function to perform crud operation on dynamodb",
             "dynamodb-lambda-read-syllabus",
             <<BasicExecArn, DynamoReadOnlyArn>>)

\* Variant: the function constructed without its `role` property.
SyllabusGetFunction_NoRole(this, envVars) ==
    PythonFunction(this, "get-courses", "src/lambda/get-courses",
             "Filter courses in the syllabus.", "get-courses",
             "ONE_MONTH", 128, NoRole, "PYTHON_3_8", 3,
             envVars)

SyllabusGetFunction(this, envVars) ==
    PythonFunction(this, "get-courses", "src/lambda/get-courses",
             "Filter courses in the syllabus.", "get-courses",
             "ONE_MONTH", 128, RoleRef(SyllabusReadRole(this)), "PYTHON_3_8", 3,
             envVars)

----------------------------------------------------------------------------
(* Build specifications *)

\* Application names handed to the micro-app builders.
AppNames == {"feeds", "syllabus", "campus"}

\* Header sets imported from ./website.
securityHeaders ==
    << [key |-> "Strict-Transport-Security", value |-> "max-age=15552000; includeSubDomains"],
       [key |-> "X-Frame-Options", value |-> "SAMEORIGIN"],
       [key |-> "X-Content-Type-Options", value |-> "nosniff"],
       [key |-> "Content-Security-Policy", value |-> "default-src 'self' 'unsafe-inline' https: data:;"] >>

microAppCorsHeader ==
    << [key |-> "Access-Control-Allow-Origin", value |-> "*"] >>

preBuild ==
    << "npm install -g pnpm",
       "pnpm install --filter ." >>

preBuildForFeeds ==
    << "git submodule set-url feeds/public/feeds https://${GITHUB_ACCESS_TOKEN}@github.com/wasedatime/feeds.git",
       "git submodule sync",
       "git submodule init",
       "git submodule update --remote",
       "npm install -g pnpm",
       "pnpm install --filter ." >>

prodBuild == << "pnpm run build" >>

devBuild ==
    << "export PREFIX=\"${AWS_BRANCH//[\\/_]/-}\"",
       "pnpm run build-dev" >>

artifacts == [baseDirectory |-> "/dist", files |-> <<"**/*">>]

cache == <<"node_modules/**/*", "~/.pnpm-store">>

\* The object handed to BuildSpec.fromObject.  `app` is the appRoot of a
\* micro-app specification and the name of the constant otherwise; `mode`
\* is the build mode of the builder ("none" when it has no mode variant).
BuildSpecObject(app, mode, monorepo, pre, build, arts, cachePaths, customHeaders) ==
    [ preBuild      |-> pre,
      artifacts     |-> arts,
      cache         |-> cachePaths,
      app           |-> app,
      mode          |-> mode,
      build         |-> build,
      customHeaders |-> customHeaders,
      version       |-> 1,
      applications  |-> monorepo ]

\* Variant: the plain pre-build phase for every name.
microAppPreBuild_Plain(name) == preBuild

\* The pre-build phase chosen by microAppBuildSpec.
microAppPreBuild(name) == IF name = "feeds" THEN preBuildForFeeds ELSE preBuild

\* The pre-build phase chosen by microAppDevBuildSpec.
microAppDevPreBuild(name) == preBuild

\* Variant: the production rule with the CORS header alone.
microAppCustomHeaders_CorsOnly ==
    << [pattern |-> "**/*", headers |-> microAppCorsHeader] >>

microAppCustomHeaders ==
    << [pattern |-> "**/*", headers |-> securityHeaders \o microAppCorsHeader] >>

\* Variant: the development rule with the production header list.
microAppDevCustomHeaders_Production ==
    << [pattern |-> "**/*", headers |-> securityHeaders \o microAppCorsHeader] >>

microAppDevCustomHeaders ==
    << [pattern |-> "**/*", headers |-> microAppCorsHeader] >>

microAppBuildSpec(name) ==
    BuildSpecObject(name, "production", TRUE, microAppPreBuild(name), prodBuild,
                    artifacts, cache, microAppCustomHeaders)

microAppDevBuildSpec(name) ==
    BuildSpecObject(name, "development", TRUE, microAppDevPreBuild(name), devBuild,
                    artifacts, cache, microAppDevCustomHeaders)

WebappCsp ==
    "default-src 'self' 'unsafe-inline' https: data:; script-src 'unsafe-inline' https://*.wasedatime.com/static/js/ https://wasedatime.com/static/js/ https://www.google-analytics.com/;"

CacheRule(pattern, value) ==
    [pattern |-> pattern, headers |-> << [key |-> "Cache-Control", value |-> value] >>]

webappCustomHeaders ==
    << [pattern |-> "**/*",
        headers |->
          << [key |-> "Strict-Transport-Security", value |-> "max-age=15552000; includeSubDomains"],
             [key |-> "X-Frame-Options", value |-> "SAMEORIGIN"],
             [key |-> "X-XSS-Protection", value |-> "1; mode=block"],
             [key |-> "X-Content-Type-Options", value |-> "nosniff"],
             [key |-> "Content-Security-Policy", value |-> WebappCsp],
             [key |-> "X-Content-Security-Policy", value |-> WebappCsp],
             [key |-> "X-WebKit-CSP", value |-> WebappCsp],
             [key |-> "X-Download-Options", value |-> "noopen"],
             [key |-> "X-DNS-Prefetch-Control", value |-> "off"] >>],
       CacheRule("**/*.js", "public,max-age=86400,immutable"),
       CacheRule("**/*.css", "public,max-age=86400,immutable"),
       CacheRule("**/*.png", "public,max-age=2592000,immutable"),
       CacheRule("**/*.jpg", "public,max-age=2592000,immutable"),
       CacheRule("**/*.ico", "public,max-age=31536000,immutable"),
       CacheRule("**/*.svg", "public,max-age=2592000,immutable") >>

\* webappDevBuildSpec has no customHeaders property.
webappDevCustomHeaders == << >>

webappBuildSpec ==
    BuildSpecObject("webapp", "production", FALSE,
        << "npm ci" >>,
        << "if [ \"${AWS_BRANCH}\" = \"master\" ]; then npm run build; fi",
           "if [[ \"${AWS_BRANCH}\" = \"release/\"* ]]; then npm run build-staging; fi",
           "if [ \"${AWS_BRANCH}\" = \"develop\" ]; then npm run build-dev; fi",
           "if [[ \"${AWS_BRANCH}\" = \"feature/\"* ]]; then npm run build-dev; fi" >>,
        [baseDirectory |-> "/build", files |-> <<"**/*">>],
        << "node_modules/**/*" >>,
        webappCustomHeaders)

webappDevBuildSpec ==
    BuildSpecObject("webapp", "development", FALSE,
        << "npm ci" >>,
        << "npm run build-dev" >>,
        [baseDirectory |-> "/build", files |-> <<"**/*">>],
        << "node_modules/**/*" >>,
        webappDevCustomHeaders)

\* openapiBuildSpec has no preBuild phase and no customHeaders property.
openapiBuildSpec ==
    BuildSpecObject("openapi", "none", FALSE,
        << >>, << >>,
        [baseDirectory |-> "/", files |-> <<"**/*">>],
        << >>,
        << >>)

----------------------------------------------------------------------------
(* The state machine *)

Init ==
    /\ env \in [ GOOGLE_API_SERVICE_ACCOUNT_INFO : SecretChoices,
                 SLACK_WEBHOOK_URL : SecretChoices ]
    /\ envVarsOf = [obj \in EnvVarsObjects |-> InitialEnvVars(obj)]
    /\ children = {}
    /\ roles = {}
    /\ functions = {}
    /\ buildSpecs = {}

\* super(scope, id), every construct being made in the one scope `app`:
\* a scope holds one construct per id, whatever its class. The child is
\* recorded with the props.envVars object it was given (NoProps when the
\* class reads none).
Construct(class, id, obj) ==
    /\ \A c \in children : c[2] # id
    /\ children' = children \cup {<<class, id, obj>>}

\* Variant: the constructor sets the credential in the caller's
\* props.envVars object, which every function built from that object reads.
NewCourseReviewsFunctions_SharedEnvVars ==
    \E id \in Ids, obj \in EnvVarsObjects :
        LET this == This("CourseReviewsFunctions", id)
            shared == WithEntry(envVarsOf[obj], "GOOGLE_API_SERVICE_ACCOUNT_INFO",
                                GOOGLE_API_SERVICE_ACCOUNT_INFO)
            builtFrom(f) == \E c \in children : c[3] = obj /\ f.scope = This(c[1], c[2])
        IN  /\ Construct("CourseReviewsFunctions", id, obj)
            /\ roles' = roles \cup {CourseReviewsReadRole(this), CourseReviewsPutRole(this)}
            /\ envVarsOf' = [envVarsOf EXCEPT ![obj] = shared]
            /\ functions' =
                   { IF builtFrom(f) /\ f.environment # NoEnvironment
                     THEN [f EXCEPT !.environment = shared] ELSE f : f \in functions }
                   \cup CourseReviewsFunctionSet(this, shared)
            /\ UNCHANGED <<env, buildSpecs>>

\* The constructor reads props.envVars and writes only to the functions
\* it makes.
NewCourseReviewsFunctions ==
    \E id \in Ids, obj \in EnvVarsObjects :
        LET this == This("CourseReviewsFunctions", id)
        IN  /\ Construct("CourseReviewsFunctions", id, obj)
            /\ roles' = roles \cup {CourseReviewsReadRole(this), CourseReviewsPutRole(this)}
            /\ functions' = functions \cup CourseReviewsFunctionSet(this, envVarsOf[obj])
            /\ UNCHANGED <<env, envVarsOf, buildSpecs>>

NewSyllabusScraper ==
    \E id \in Ids, obj \in EnvVarsObjects :
        LET this == This("SyllabusScraper", id)
        IN  /\ Construct("SyllabusScraper", id, obj)
            /\ roles' = roles \cup {ScraperS3AccessRole(this)}
            /\ functions' = functions \cup {ScraperBaseFunction(this, envVarsOf[obj])}
            /\ UNCHANGED <<env, envVarsOf, buildSpecs>>

NewAmplifyStatusPublisher ==
    \E id \in Ids :
        /\ Construct("AmplifyStatusPublisher", id, NoProps)
        /\ functions' = functions \cup
               {AmplifyStatusBaseFunction(This("AmplifyStatusPublisher", id))}
        /\ UNCHANGED <<env, envVarsOf, roles, buildSpecs>>

NewScraperStatusPublisher ==
    \E id \in Ids :
        /\ Construct("ScraperStatusPublisher", id, NoProps)
        /\ functions' = functions \cup
               {ScraperStatusBaseFunction(This("ScraperStatusPublisher", id))}
        /\ UNCHANGED <<env, envVarsOf, roles, buildSpecs>>

NewPreSignupWasedaMailValidator ==
    \E id \in Ids :
        /\ Construct("PreSignupWasedaMailValidator", id, NoProps)
        /\ functions' = functions \cup
               {PreSignupBaseFunction(This("PreSignupWasedaMailValidator", id))}
        /\ UNCHANGED <<env, envVarsOf, roles, buildSpecs>>

NewTimetableFunctions ==
    \E id \in Ids, obj \in EnvVarsObjects :
        LET this == This("TimetableFunctions", id)
        IN  /\ Construct("TimetableFunctions", id, obj)
            /\ roles' = roles \cup {TimetableReadRole(this), TimetablePutRole(this)}
            /\ functions' = functions \cup TimetableFunctionSet(this, envVarsOf[obj])
            /\ UNCHANGED <<env, envVarsOf, buildSpecs>>

NewSyllabusFunctions ==
    \E id \in Ids, obj \in EnvVarsObjects :
        LET this == This("SyllabusFunctions", id)
        IN  /\ Construct("SyllabusFunctions", id, obj)
            /\ roles' = roles \cup {SyllabusReadRole(this)}
            /\ functions' = functions \cup {SyllabusGetFunction(this, envVarsOf[obj])}
            /\ UNCHANGED <<env, envVarsOf, buildSpecs>>

\* A build specification is produced and handed over once.
Produce(specs) ==
    /\ ~(specs \subseteq buildSpecs)
    /\ buildSpecs' = buildSpecs \cup specs
    /\ UNCHANGED <<env, envVarsOf, children, roles, functions>>

MicroAppBuildSpec == \E name \in AppNames : Produce({microAppBuildSpec(name)})

MicroAppDevBuildSpec == \E name \in AppNames : Produce({microAppDevBuildSpec(name)})

\* Loading the module of the web-app constants evaluates its three
\* BuildSpec.fromObject calls.
LoadWebappBuildSpecs ==
    Produce({webappBuildSpec, webappDevBuildSpec, openapiBuildSpec})

\* The constructs of lambda-functions.ts.
NextConstructs ==
    \/ NewCourseReviewsFunctions
    \/ NewSyllabusScraper
    \/ NewAmplifyStatusPublisher
    \/ NewScraperStatusPublisher
    \/ NewPreSignupWasedaMailValidator
    \/ NewTimetableFunctions
    \/ NewSyllabusFunctions

\* The build specifications.
NextBuildSpecs ==
    \/ MicroAppBuildSpec
    \/ MicroAppDevBuildSpec
    \/ LoadWebappBuildSpecs

Next ==
    \/ NextConstructs
    \/ NextBuildSpecs

\* The two files share no state: the constructs and the build
\* specifications are explored each on their own.
SpecConstructs == Init /\ [][NextConstructs]_vars

SpecBuildSpecs == Init /\ [][NextBuildSpecs]_vars

Spec == Init /\ [][Next]_vars

----------------------------------------------------------------------------
(* Vocabulary of the properties *)

Range(seq) == { seq[i] : i \in DOMAIN seq }

WorkloadFamilies ==
    {"CourseReviewsFunctions", "SyllabusScraper", "TimetableFunctions", "SyllabusFunctions"}

ReadOnlyPolicies == {DynamoReadOnlyArn}

ReadWritePolicies == {DynamoFullAccessArn, S3FullAccessArn}

IsReadOnlyRole(r) ==
    /\ Range(r.managedPolicies) \cap ReadOnlyPolicies # {}
    /\ Range(r.managedPolicies) \cap ReadWritePolicies = {}

IsReadWriteRole(r) == Range(r.managedPolicies) \cap ReadWritePolicies # {}

\* The operation intent of a workload, read off the description the
\* constructor gives the function: what the function does to the store.
Intent(f) ==
    CASE f.description = "Get course reviews from the database." -> "retrieve"
      [] f.description = "Save course reviews into the database." -> "create"
      [] f.description = "Update course reviews in the database." -> "update"
      [] f.description = "Delete course reviews in the database." -> "delete"
      [] f.description = "Base function for scraping syllabus data from Waseda University." -> "create"
      [] f.description = "Forwards Amplify build status message from SNS to Slack Webhook." -> "notify"
      [] f.description = "Forwards scraper execution status message from SNS to Slack Webhook." -> "notify"
      [] f.description = "Validates if the user is signing up using WasedaMail" -> "transform"
      [] f.description = "Get timetable from the database." -> "retrieve"
      [] f.description = "Save timetable into the database." -> "create"
      [] f.description = "Update timetable in the database." -> "update"
      [] f.description = "Import timetable from pdf." -> "import"
      [] f.description = "Export timetable as image." -> "export"
      [] f.description = "Filter courses in the syllabus." -> "retrieve"
      [] OTHER -> "unknown"

\* The constructs made so far of one class, each as its `this`.
Instances(class) == { This(c[1], c[2]) : c \in { d \in children : d[1] = class } }

\* The functions and roles one construct holds.
FunctionsIn(this) == { f \in functions : f.scope = this }

RolesIn(this) == { r \in roles : r.scope = this }

\* The functions and roles of all the constructs of one family.
FunctionsOf(family) == { f \in functions : ClassOf(f.scope) = family }

RolesOf(family) == { r \in roles : ClassOf(r.scope) = family }

----------------------------------------------------------------------------
(* C1 *)

\* C1: every function descriptor bound to a read-write role has intent
\* create, update or delete; every one bound to a read-only role has intent
\* retrieve; every one bound to no role has intent transform, import, export
\* or notify; and every descriptor is in one of these three cases.
C1_RoleMatchesIntent ==
    \A f \in functions :
        \/ /\ f.role = NoRole
           /\ Intent(f) \in {"transform", "import", "export", "notify"}
        \/ \E r \in roles :
              /\ RoleRef(r) = f.role
              /\ \/ IsReadWriteRole(r) /\ Intent(f) \in {"create", "update", "delete"}
                 \/ IsReadOnlyRole(r) /\ Intent(f) = "retrieve"

C1_Witness ==
    /\ Instances("CourseReviewsFunctions") # {}
    /\ \E f \in functions : \E r \in roles : RoleRef(r) = f.role /\ IsReadWriteRole(r)
    /\ \E f \in functions : \E r \in roles : RoleRef(r) = f.role /\ IsReadOnlyRole(r)
    /\ \E f \in functions : f.role = NoRole

----------------------------------------------------------------------------
(* C2 *)

RoleLevel(f) ==
    IF f.role = NoRole THEN "none"
    ELSE IF \E r \in roles : RoleRef(r) = f.role /\ IsReadOnlyRole(r) THEN "read"
    ELSE IF \E r \in roles : RoleRef(r) = f.role /\ IsReadWriteRole(r) THEN "write"
    ELSE "unknown"

\* C2: building the timetable family yields the six functions get, post,
\* patch, delete, import and export and exactly two roles, with get bound to
\* the read role, post, patch and delete to the write role, import and export
\* to none, and memory sizes 128, 128, 128, 128, 256 and 512.
C2_TimetableSixFunctions ==
    \A this \in Instances("TimetableFunctions") :
        /\ Cardinality(RolesIn(this)) = 2
        /\ { <<f.functionName, RoleLevel(f), f.memorySize>> : f \in FunctionsIn(this) }
           = { <<"get-timetable", "read", 128>>,
               <<"post-timetable", "write", 128>>,
               <<"patch-timetable", "write", 128>>,
               <<"delete-timetable", "write", 128>>,
               <<"import-timetable", "none", 256>>,
               <<"export-timetable", "none", 512>> }

----------------------------------------------------------------------------
(* C3 *)

\* C3: every access role carries the baseline execution policy
\* (AWSLambdaBasicExecutionRole) among its managed policies, next to a
\* data-access policy.
C3_BaselinePolicy ==
    \A r \in roles :
        /\ BasicExecArn \in Range(r.managedPolicies)
        /\ Range(r.managedPolicies) \ {BasicExecArn} # {}

C3_Witness ==
    /\ Instances("TimetableFunctions") # {}
    /\ \E family \in WorkloadFamilies \ {"TimetableFunctions"} : Instances(family) # {}
    /\ Cardinality(roles) >= 3

----------------------------------------------------------------------------
(* C4 *)

\* C4: in every construct of a workload family the roles constructed are
\* exactly the roles its functions bind: as many roles as distinct
\* bindings, and no role without a function referencing it.
C4_NoOrphanRoles ==
    \A family \in WorkloadFamilies :
        \A this \in Instances(family) :
            LET bound == { f.role : f \in FunctionsIn(this) } \ {NoRole}
            IN /\ Cardinality(RolesIn(this)) = Cardinality(bound)
               /\ \A r \in RolesIn(this) : RoleRef(r) \in bound

C4_Witness ==
    /\ \E this \in Instances("SyllabusFunctions") : RolesIn(this) # {}
    /\ \E this \in Instances("TimetableFunctions") : Cardinality(RolesIn(this)) = 2

----------------------------------------------------------------------------
(* C5 *)

\* C5: no role is referenced by functions of two different families, and
\* the role names of the families are pairwise distinct: two roles of one
\* name are the same role of the same family.
C5_RolesPerFamily ==
    /\ \A f, g \in functions :
           (f.role # NoRole /\ f.role = g.role) => ClassOf(f.scope) = ClassOf(g.scope)
    /\ \A r1, r2 \in roles :
           r1.roleName = r2.roleName =>
               (ClassOf(r1.scope) = ClassOf(r2.scope) /\ r1.id = r2.id)

C5_Witness ==
    /\ Instances("SyllabusFunctions") # {}
    /\ \E f, g \in functions :
           /\ ClassOf(f.scope) # ClassOf(g.scope)
           /\ f.role # NoRole
           /\ g.role # NoRole

----------------------------------------------------------------------------
(* C6 *)

\* The configuration values the constructors add with addEnvironment.
RequiredNames == {"GOOGLE_API_SERVICE_ACCOUNT_INFO", "SLACK_WEBHOOK_URL"}

\* C6: no function descriptor is provisioned with a required configuration
\* value (the Google API credential, the Slack webhook URL) that is
\* undefined: the build fails instead of producing such a descriptor.
C6_NoUndefinedCredential ==
    \A f \in functions :
        \A kv \in f.environment :
            kv[1] \in RequiredNames => kv[2] # Undefined

----------------------------------------------------------------------------
(* C7, C8 *)

SubmoduleCommands ==
    { "git submodule set-url feeds/public/feeds https://${GITHUB_ACCESS_TOKEN}@github.com/wasedatime/feeds.git",
      "git submodule sync",
      "git submodule init",
      "git submodule update --remote" }

InstallCommands ==
    { "npm install -g pnpm", "pnpm install --filter .", "npm ci" }

\* Every submodule command is in the phase, and each comes before every
\* install command of the phase.
SyncsBeforeInstall(phase) ==
    /\ SubmoduleCommands \subseteq Range(phase)
    /\ Range(phase) \cap InstallCommands # {}
    /\ \A i, j \in DOMAIN phase :
           (phase[i] \in SubmoduleCommands /\ phase[j] \in InstallCommands) => i < j

NoSubmoduleCommand(b) ==
    (Range(b.preBuild) \cup Range(b.build)) \cap SubmoduleCommands = {}

\* C7: the production build specification of feeds runs the submodule
\* commands before the install commands in its pre-build phase, and the
\* production build specification of every other application has no
\* submodule command.
C7_FeedsSyncsInProduction ==
    \A b \in buildSpecs :
        b.mode = "production" =>
            IF b.app = "feeds" THEN SyncsBeforeInstall(b.preBuild)
                               ELSE NoSubmoduleCommand(b)

C7_Witness ==
    /\ \E b \in buildSpecs : b.mode = "production" /\ b.app = "feeds"
    /\ \E b \in buildSpecs : b.mode = "production" /\ b.applications /\ b.app # "feeds"
    /\ \E b \in buildSpecs : b.mode = "production" /\ ~b.applications

\* C8: for every application name and in both build modes, the pre-build
\* phase is the submodule-sync variant exactly when the name is feeds.
C8_SelectedByIdentity ==
    \A b \in buildSpecs :
        b.applications =>
            (Range(b.preBuild) \cap SubmoduleCommands # {} <=> b.app = "feeds")

----------------------------------------------------------------------------
(* C9, C10 *)

\* The response headers a build specification injects, over all its rules.
InjectedHeaders(b) ==
    UNION { Range(b.customHeaders[i].headers) : i \in DOMAIN b.customHeaders }

\* C9: for every application with a development and a production build
\* specification, the headers the development one injects are a strict
\* subset of the headers the production one injects.
C9_DevHeadersStrictSubset ==
    \A prod, dev \in buildSpecs :
        (prod.mode = "production" /\ dev.mode = "development" /\ prod.app = dev.app) =>
            /\ InjectedHeaders(dev) \subseteq InjectedHeaders(prod)
            /\ InjectedHeaders(dev) # InjectedHeaders(prod)

C9_Witness ==
    /\ \E prod, dev \in buildSpecs :
           /\ prod.mode = "production" /\ dev.mode = "development"
           /\ prod.app = dev.app /\ prod.applications
           /\ InjectedHeaders(dev) # {}
    /\ \E prod, dev \in buildSpecs :
           /\ prod.mode = "production" /\ dev.mode = "development"
           /\ prod.app = dev.app /\ ~prod.applications

BaselineSecurityKeys ==
    { "Strict-Transport-Security", "X-Frame-Options",
      "X-Content-Type-Options", "Content-Security-Policy" }

CorsKey == "Access-Control-Allow-Origin"

HeaderKeys(rule) == { h.key : h \in Range(rule.headers) }

AppliesBaseline(b) ==
    \E i \in DOMAIN b.customHeaders :
        /\ b.customHeaders[i].pattern = "**/*"
        /\ BaselineSecurityKeys \subseteq HeaderKeys(b.customHeaders[i])

AppliesCorsOnly(b) ==
    /\ Len(b.customHeaders) = 1
    /\ HeaderKeys(b.customHeaders[1]) = {CorsKey}

\* C10 as stated: every production build specification applies the
\* baseline security headers under a rule matching all paths, and every
\* development build specification applies exactly one header rule, made
\* of the CORS header alone.
C10_EveryDevAppliesCors ==
    \A b \in buildSpecs :
        /\ b.mode = "production" => AppliesBaseline(b)
        /\ b.mode = "development" => AppliesCorsOnly(b)

\* C10, amended: every production build specification (micro-app, web app)
\* applies the baseline security headers under a rule matching all paths;
\* every micro-app development build specification applies exactly one
\* header rule, made of the CORS header alone; the web-app development
\* build specification and the OpenAPI build specification, which has no
\* mode variant, apply no header rule.
C10_DevHeadersReduced ==
    \A b \in buildSpecs :
        /\ b.mode = "production" => AppliesBaseline(b)
        /\ (b.mode = "development" /\ b.applications) => AppliesCorsOnly(b)
        /\ (b.mode = "development" /\ ~b.applications) => b.customHeaders = << >>
        /\ b.mode = "none" => b.customHeaders = << >>

C10_Witness ==
    /\ \E b \in buildSpecs : b.mode = "production" /\ b.applications
    /\ \E b \in buildSpecs : b.mode = "production" /\ ~b.applications
    /\ \E b \in buildSpecs : b.mode = "development" /\ b.applications
    /\ \E b \in buildSpecs : b.mode = "development" /\ ~b.applications
    /\ \E b \in buildSpecs : b.mode = "none"

----------------------------------------------------------------------------
(* C11 *)

StatusPublishers == {"AmplifyStatusPublisher", "ScraperStatusPublisher"}

EnvironmentNames(f) == { kv[1] : kv \in f.environment }

\* C11: each status publisher produces exactly one function descriptor,
\* bound to no role and carrying exactly one environment variable, the
\* Slack webhook URL; the publishers construct no role, and the descriptors
\* of the two kinds differ in function name and in code location.
C11_IndependentPublishers ==
    /\ \A p \in StatusPublishers :
           \A this \in Instances(p) :
               /\ Cardinality(FunctionsIn(this)) = 1
               /\ RolesIn(this) = {}
               /\ \A f \in FunctionsIn(this) :
                      /\ f.role = NoRole
                      /\ Cardinality(f.environment) = 1
                      /\ EnvironmentNames(f) = {"SLACK_WEBHOOK_URL"}
    /\ \A f \in FunctionsOf("AmplifyStatusPublisher") :
           \A g \in FunctionsOf("ScraperStatusPublisher") :
               /\ f.functionName # g.functionName
               /\ f.code # g.code

C11_Witness ==
    /\ FunctionsOf("AmplifyStatusPublisher") # {}
    /\ FunctionsOf("ScraperStatusPublisher") # {}

----------------------------------------------------------------------------
(* C12 *)

\* The props.envVars objects as the callers wrote them.
EnvVarsAsWritten == [obj \in EnvVarsObjects |-> InitialEnvVars(obj)]

\* The roles a constructor of the class makes.
RolesBuilt(class, this) ==
    CASE class = "CourseReviewsFunctions" -> {CourseReviewsReadRole(this), CourseReviewsPutRole(this)}
      [] class = "SyllabusScraper" -> {ScraperS3AccessRole(this)}
      [] class = "TimetableFunctions" -> {TimetableReadRole(this), TimetablePutRole(this)}
      [] class = "SyllabusFunctions" -> {SyllabusReadRole(this)}
      [] OTHER -> {}

\* The function descriptors a constructor of the class leaves when it is
\* the only call made on the props.envVars objects as written.
FunctionsBuilt(class, this, obj) ==
    CASE class = "CourseReviewsFunctions" ->
             CourseReviewsFunctionSet(this, EnvVarsAsWritten[obj])
      [] class = "SyllabusScraper" -> {ScraperBaseFunction(this, EnvVarsAsWritten[obj])}
      [] class = "TimetableFunctions" -> TimetableFunctionSet(this, EnvVarsAsWritten[obj])
      [] class = "SyllabusFunctions" -> {SyllabusGetFunction(this, EnvVarsAsWritten[obj])}
      [] class = "AmplifyStatusPublisher" -> {AmplifyStatusBaseFunction(this)}
      [] class = "ScraperStatusPublisher" -> {ScraperStatusBaseFunction(this)}
      [] class = "PreSignupWasedaMailValidator" -> {PreSignupBaseFunction(this)}

----------------------------------------------------------------------------
(* C13 *)

CredentialName == "GOOGLE_API_SERVICE_ACCOUNT_INFO"

\* The course-reviews constructs made so far, with their props.envVars object.
CourseReviewsChildren == { c \in children : c[1] = "CourseReviewsFunctions" }

\* The four functions of the construct hold the supplied mapping, post and
\* patch with the credential set on top of it, and the caller's mapping is
\* as supplied.
BuiltFromSuppliedEnvVars(c) ==
    LET this == This(c[1], c[2])
        supplied == InitialEnvVars(c[3])
    IN /\ envVarsOf[c[3]] = supplied
       /\ Cardinality(FunctionsIn(this)) = 4
       /\ \A f \in FunctionsIn(this) :
              IF f.id \in {"post-review", "patch-review"}
              THEN f.environment =
                       WithEntry(supplied, CredentialName, GOOGLE_API_SERVICE_ACCOUNT_INFO)
              ELSE f.environment = supplied

\* C13 as stated: the four functions are built from the same props.envVars,
\* the credential name is in the environment of post and patch only, the
\* environments of get and delete equal the supplied mapping, and the
\* caller's mapping is unchanged.
C13_CredentialInPostPatchOnly ==
    \A c \in CourseReviewsChildren :
        /\ BuiltFromSuppliedEnvVars(c)
        /\ \A f \in FunctionsIn(This(c[1], c[2])) :
               CredentialName \in EnvironmentNames(f)
                   <=> f.id \in {"post-review", "patch-review"}

\* C13, amended: the four functions are built from the same props.envVars,
\* post and patch hold the credential name, get and delete equal the
\* supplied mapping exactly and so hold the credential name only when the
\* caller supplied it, and the caller's mapping is unchanged.
C13_CredentialConfined ==
    \A c \in CourseReviewsChildren :
        /\ BuiltFromSuppliedEnvVars(c)
        /\ \A f \in FunctionsIn(This(c[1], c[2])) :
               CredentialName \in EnvironmentNames(f)
                   <=> \/ f.id \in {"post-review", "patch-review"}
                       \/ \E kv \in InitialEnvVars(c[3]) : kv[1] = CredentialName

C13_Witness ==
    /\ \E c \in CourseReviewsChildren :
           /\ \A kv \in InitialEnvVars(c[3]) : kv[1] # CredentialName
           /\ \E f \in FunctionsIn(This(c[1], c[2])) :
                  <<CredentialName, "secret">> \in f.environment
           /\ \E f \in FunctionsIn(This(c[1], c[2])) :
                  CredentialName \notin EnvironmentNames(f)

====
